---- MODULE Spec2Model ----
(***************************************************************************)
(* Model of src/src/netlink.c: the generic-netlink configuration channel   *)
(* of a WireGuard device.  WG_CMD_GET_DEVICE is a resumable dump           *)
(* (get_start / get / get_done), WG_CMD_SET_DEVICE is the batched apply    *)
(* (set / set_device_port / set_peer / set_allowedip).                     *)
(*                                                                         *)
(* One device is modelled.  Peers are objects in a bounded pool of slots   *)
(* (a slot is the address of a struct wireguard_peer); a slot is reused    *)
(* once its reference count has dropped to zero.                           *)
(***************************************************************************)
EXTENDS Integers, Sequences, FiniteSets, TLC

\* ------------------------------------------------------------------ bounds
MaxObjs == 2          \* peer objects that can be allocated at one time
MaxGen == 2           \* set() calls that take the update lock in one run
MaxChunks == 4        \* DumpNext calls of one dump

\* --------------------------------------------------------- error numbers
EINVAL == 22
ENODEV == 19
ENOMEM == 12
EBADR == 53
EOPNOTSUPP == 95
EMSGSIZE == 90

\* ------------------------------------------------------- address families
AF_INET == 2
AF_INET6 == 10
AF_OTHER == 17

\* ---------------------------------------------- sizes on the wire (bytes)
\* An attribute takes NLA_HDRLEN plus its payload rounded up to 4 bytes.
NLA_HDRLEN == 4
GENL_MSG_HDR == 20        \* genlmsg_put: nlmsghdr (16) + genlmsghdr (4)
SZ_U8 == 8
SZ_U16 == 8
SZ_U32 == 8
SZ_U64 == 12
SZ_IFNAME == 8            \* "wg0" and its NUL
SZ_KEY == 36              \* NOISE_PUBLIC_KEY_LEN = NOISE_SYMMETRIC_KEY_LEN = 32
SZ_TIMEVAL == 20
SZ_SOCKADDR_IN == 20
SZ_SOCKADDR_IN6 == 32
SZ_IN_ADDR == 8
SZ_IN6_ADDR == 20

\* ------------------------------------------------------------- the world
Slots == 1..MaxObjs
NoPeer == 0               \* a NULL struct wireguard_peer *
LowOrderKeys == {2}       \* peer keys whose static-static product is zero
Ports == {0, 51820}
NoSock == -1

\* The routing table's slots, in the order in which a walk enumerates them
\* (the IPv4 trie before the IPv6 trie).
RtSlots ==
  << [family |-> AF_INET, addr |-> 1, cidr |-> 24],
     [family |-> AF_INET, addr |-> 2, cidr |-> 32],
     [family |-> AF_INET6, addr |-> 1, cidr |-> 64] >>
RtIdx == 1..Len(RtSlots)

VARIABLES
  wg,       \* struct wireguard_device (and the part of its net_device used here)
  peers,    \* the peer objects, by slot
  rt,       \* wg->peer_routing_table: owner of every routing-table slot
  cb,       \* struct netlink_callback of the dump in progress
  dump,     \* ghost: what the chunks of the dump in progress carried
  last,     \* ghost: the last call and what it returned
  uaf,      \* ghost: a freed or stolen reference was used
  lock,     \* wg->device_update_lock (taken with the rtnl lock): its holder
  pc        \* the calls of get() and set() that are inside their critical section

vars == <<wg, peers, rt, cb, dump, last, uaf, lock, pc>>

\* ------------------------------------------------------------ sequences
Range(s) == {s[i] : i \in 1..Len(s)}

IndexOf(s, x) == IF x \in Range(s) THEN CHOOSE i \in 1..Len(s) : s[i] = x ELSE 0

Without(s, x) == SelectSeq(s, LAMBDA y : y # x)

\* a value under a name: In applied to v
Let(v, In(_)) == In(v)

\* ----------------------------------------------------- peer collaborators
FreePeer ==
  [refs |-> 0, remote_static |-> 0, preshared_key |-> 0,
   endpoint |-> 0, src |-> FALSE, persistent_keepalive_interval |-> 0]

\* a get() that never finds the cursor removed
OffList_Never(d, p) == FALSE

\* list_empty(&peer->peer_list): the object is no longer on the device's list
OffList(d, p) == p \notin Range(d.wg.peer_list)

\* pubkey_hashtable_lookup
Lookup(d, key) ==
  IF \E p \in Range(d.wg.peer_list) : d.peers[p].remote_static = key
  THEN CHOOSE p \in Range(d.wg.peer_list) : d.peers[p].remote_static = key
  ELSE NoPeer

\* routing_table_remove_by_peer
RoutingRemoveByPeer(table, p) == [i \in RtIdx |-> IF table[i] = p THEN 0 ELSE table[i]]

\* routing_table_walk_ips_by_peer: the table's slots owned by p, in walk order
WalkOrder(table, p) == SelectSeq([i \in RtIdx |-> i], LAMBDA i : table[i] = p)

\* peer_put on a reference that is held: the object is freed with the last one
PeerPut(ps, p) ==
  IF p = NoPeer THEN ps
  ELSE IF ps[p].refs <= 1 THEN [ps EXCEPT ![p] = FreePeer]
  ELSE [ps EXCEPT ![p].refs = @ - 1]

\* peer_rcu_get
PeerGet(ps, p) == IF p = NoPeer THEN ps ELSE [ps EXCEPT ![p].refs = @ + 1]

\* peer_remove: off the list, out of the routing table, the list's reference dropped
PeerRemove(d, p) ==
  [d EXCEPT !.wg.peer_list = Without(@, p),
            !.rt = RoutingRemoveByPeer(@, p),
            !.peers = PeerPut(@, p)]

\* ------------------------------------------------------------ netdevices
\* The network namespace holds the WireGuard device (ifindex 1, "wg0"),
\* a device of another kind (ifindex 2) and nothing else.
WgIndex == 1
OtherIndex == 2
NoIndex == 0              \* attribute WGDEVICE_A_IFINDEX absent
NoName == ""              \* attribute WGDEVICE_A_IFNAME absent
Selectors == [ifindex : {NoIndex, WgIndex, OtherIndex, 3}, ifname : {NoName, "wg0", "wg9"}]

\* a lookup_interface that takes the index when both are given and fails
\* with ENODEV when neither is
lookup_interface_IndexFirst(sel) ==
  IF sel.ifindex # NoIndex
  THEN (IF sel.ifindex = WgIndex THEN 0
        ELSE IF sel.ifindex = OtherIndex THEN -EOPNOTSUPP ELSE -ENODEV)
  ELSE (IF sel.ifname = "wg0" THEN 0 ELSE -ENODEV)

\* lookup_interface: 0 when the selector names the WireGuard device (whose
\* net_device is then held), else the negated errno
lookup_interface(sel) ==
  IF (sel.ifindex = NoIndex) = (sel.ifname = NoName) THEN -EBADR
  ELSE IF sel.ifindex # NoIndex
       THEN (IF sel.ifindex = WgIndex THEN 0
             ELSE IF sel.ifindex = OtherIndex THEN -EOPNOTSUPP ELSE -ENODEV)
       ELSE (IF sel.ifname = "wg0" THEN 0 ELSE -ENODEV)

\* ------------------------------------------------------------------ dump
\* nla_put of attributes of the given total sizes, one after the other, into
\* a message of `cap` bytes holding `len`: the new length, or -1 as soon as
\* one does not fit
RECURSIVE NlaPutAll(_, _, _)
NlaPutAll(len, sizes, cap) ==
  IF sizes = <<>> THEN len
  ELSE IF len + Head(sizes) > cap THEN -1
  ELSE NlaPutAll(len + Head(sizes), Tail(sizes), cap)

AddrSize(family) == IF family = AF_INET6 THEN SZ_IN6_ADDR ELSE SZ_IN_ADDR

\* get_allowedips: the callback of the routing-table walk.  ctx is struct
\* allowedips_ctx with the skb's length (len) and, as ghost, the table slots
\* written (ips).
get_allowedips(ctx, i, cap) ==
  IF ctx.idx + 1 < ctx.idx_cursor THEN [ret |-> 0, ctx |-> [ctx EXCEPT !.idx = @ + 1]]
  ELSE IF ctx.len + NLA_HDRLEN > cap THEN [ret |-> -EMSGSIZE, ctx |-> [ctx EXCEPT !.idx = @ + 1]]
  ELSE Let(NlaPutAll(ctx.len + NLA_HDRLEN, <<SZ_U8, SZ_U16, AddrSize(RtSlots[i].family)>>, cap),
           LAMBDA end :
             IF end < 0 THEN [ret |-> -EMSGSIZE, ctx |-> [ctx EXCEPT !.idx = @ + 1]]
             ELSE [ret |-> 0,
                   ctx |-> [ctx EXCEPT !.idx = @ + 1, !.len = end, !.ips = Append(@, i)]])

\* routing_table_walk_ips_by_peer_sleepable: calls the callback on the
\* peer's entries in walk order and stops at the first non-zero return
RECURSIVE routing_table_walk(_, _, _)
routing_table_walk(order, ctx, cap) ==
  IF order = <<>> THEN [ret |-> 0, ctx |-> ctx]
  ELSE Let(get_allowedips(ctx, Head(order), cap),
           LAMBDA r : IF r.ret # 0 THEN r ELSE routing_table_walk(Tail(order), r.ctx, cap))

EndpointSize(family) ==
  IF family = AF_INET THEN <<SZ_SOCKADDR_IN>>
  ELSE IF family = AF_INET6 THEN <<SZ_SOCKADDR_IN6>> ELSE <<>>

\* the attributes get_peer puts before the allowed-IP nests: the public key,
\* on the peer's first chunk the other fields, and the head of the nest
PeerAttrSizes(peer, cursor) ==
  <<SZ_KEY>>
  \o (IF cursor = 0
      THEN <<SZ_KEY, SZ_TIMEVAL, SZ_U16, SZ_U64, SZ_U64>> \o EndpointSize(peer.endpoint)
      ELSE <<>>)
  \o <<NLA_HDRLEN>>

\* get_peer: one peer nest appended to a message of length len.  Returns the
\* errno, the new length, the new allowed-IP cursor and what was written
\* (frags: nothing, or one peer fragment).
get_peer(d, p, cursor, len, cap) ==
  Let(IF len + NLA_HDRLEN > cap THEN -1
      ELSE NlaPutAll(len + NLA_HDRLEN, PeerAttrSizes(d.peers[p], cursor), cap),
      LAMBDA body :
        IF body < 0
        THEN [ret |-> -EMSGSIZE, len |-> len, cursor |-> cursor, frags |-> <<>>]
        ELSE Let(routing_table_walk(WalkOrder(d.rt, p),
                   [len |-> body, idx |-> 0, idx_cursor |-> cursor, ips |-> <<>>], cap),
                 LAMBDA walk :
                   [ret |-> IF walk.ret # 0 THEN -EMSGSIZE ELSE 0,
                    len |-> walk.ctx.len,
                    cursor |-> IF walk.ret # 0 THEN walk.ctx.idx ELSE 0,
                    frags |-> <<[peer |-> p, public_key |-> d.peers[p].remote_static,
                                 full |-> cursor = 0, ips |-> walk.ctx.ips]>>]))

\* the list_for_each_entry_continue loop of get(): todo are the peers after
\* the cursor, next is next_peer_cursor
RECURSIVE get_peers(_, _, _, _, _, _, _)
get_peers(d, todo, cursor, len, cap, next, frags) ==
  IF todo = <<>>
  THEN [done |-> TRUE, next |-> next, cursor |-> cursor, len |-> len, frags |-> frags]
  ELSE Let(get_peer(d, Head(todo), cursor, len, cap),
           LAMBDA r :
             IF r.ret # 0
             THEN [done |-> FALSE, next |-> next, cursor |-> r.cursor, len |-> r.len,
                   frags |-> frags \o r.frags]
             ELSE get_peers(d, Tail(todo), r.cursor, r.len, cap, Head(todo),
                            frags \o r.frags))

\* the attributes get() puts before the peer nests: the message header, on
\* the first chunk the device's fields and key pair, and the head of the nest
DeviceAttrSizes(d, first) ==
  <<GENL_MSG_HDR>>
  \o (IF first THEN <<SZ_U16, SZ_U32, SZ_U32, SZ_IFNAME>> ELSE <<>>)
  \o (IF first /\ d.wg.has_identity THEN <<SZ_KEY, SZ_KEY>> ELSE <<>>)
  \o <<NLA_HDRLEN>>

\* the peers that get() walks: those after the cursor
PeersAfter(d, last_peer_cursor) ==
  IF last_peer_cursor = NoPeer THEN d.wg.peer_list
  ELSE SubSeq(d.wg.peer_list, IndexOf(d.wg.peer_list, last_peer_cursor) + 1,
              Len(d.wg.peer_list))

\* a get() that hands out the sequence number the callback already has
DumpSeq_Stale(d, c) == c.seq

\* cb->seq = wg->device_update_gen, under the update lock
DumpSeq(d, c) == d.wg.device_update_gen

\* The body of get() between taking and releasing the update lock, for a
\* message of cap bytes: ret, done, the cursor to store, the peers after the
\* reference moves, and the chunk written.
get(d, c, cap) ==
  Let(NlaPutAll(0, DeviceAttrSizes(d, c.args1 = NoPeer), cap),
      LAMBDA head :
  Let(IF head < 0 \/ d.wg.peer_list = <<>> \/ (c.args1 # NoPeer /\ OffList(d, c.args1))
      THEN [done |-> TRUE, next |-> NoPeer, cursor |-> c.args2, len |-> head - NLA_HDRLEN,
            frags |-> <<>>]
      ELSE get_peers(d, PeersAfter(d, c.args1), c.args2, head, cap, NoPeer, <<>>),
      LAMBDA loop :
        [ret |-> IF head < 0 THEN -EMSGSIZE ELSE IF loop.done THEN 0 ELSE loop.len,
         done |-> head >= 0 /\ loop.done,
         args1 |-> IF head < 0 THEN c.args1 ELSE IF loop.done THEN NoPeer ELSE loop.next,
         args2 |-> IF head < 0 THEN c.args2 ELSE IF loop.done THEN 0 ELSE loop.cursor,
         peers |-> IF head >= 0 /\ ~loop.done
                   THEN PeerGet(PeerPut(d.peers, c.args1), loop.next)
                   ELSE PeerPut(d.peers, c.args1),
         hdr_ok |-> GENL_MSG_HDR <= cap,
         seq |-> DumpSeq(d, c),
         chunk |-> [seq |-> DumpSeq(d, c),
                    intr |-> c.prev_seq # 0 /\ c.prev_seq # DumpSeq(d, c),
                    device |-> c.args1 = NoPeer,
                    identity |-> c.args1 = NoPeer /\ d.wg.has_identity,
                    peers |-> loop.frags]]))

\* ----------------------------------------------------------------- apply
ERANGE == 34
EADDRINUSE == 98
HZ == 100
NoAttr == -1              \* an integer attribute that is absent
KEY_LEN == 32             \* NOISE_PUBLIC_KEY_LEN = NOISE_SYMMETRIC_KEY_LEN
IN_ADDR_LEN == 4          \* sizeof(struct in_addr)
IN6_ADDR_LEN == 16        \* sizeof(struct in6_addr)
SOCKADDR_IN_LEN == 16     \* sizeof(struct sockaddr_in)
SOCKADDR_IN6_LEN == 28    \* sizeof(struct sockaddr_in6)

\* curve25519_generate_public
DerivePublic(private_key) == private_key - 10

\* noise_precompute_static_static: fails when the device has an identity and
\* the product with the peer's key is the zero point
PrecomputeOk(d, p) == ~(d.wg.has_identity /\ d.peers[p].remote_static \in LowOrderKeys)

\* socket_clear_peer_endpoint_src on every peer of the list (peer_for_each)
ClearAllSrc(d) ==
  [d EXCEPT !.peers = [p \in Slots |->
      IF p \in Range(d.wg.peer_list) THEN [d.peers[p] EXCEPT !.src = FALSE] ELSE d.peers[p]]]

\* a set_device_port that rebinds without touching the peers
set_device_port_KeepSrc(d, port, init_ret) ==
  IF d.wg.incoming_port = port THEN [d |-> d, ret |-> 0, sock_ops |-> 0]
  ELSE IF ~d.wg.running
  THEN [d |-> [d EXCEPT !.wg.sock = NoSock, !.wg.incoming_port = port], ret |-> 0,
        sock_ops |-> 1]
  ELSE [d |-> [d EXCEPT !.wg.sock = IF init_ret = 0 THEN port ELSE NoSock,
                        !.wg.incoming_port = port],
        ret |-> init_ret, sock_ops |-> 2]

\* set_device_port; init_ret is what socket_init returns if it is called
set_device_port(d, port, init_ret) ==
  IF d.wg.incoming_port = port THEN [d |-> d, ret |-> 0, sock_ops |-> 0]
  ELSE Let(ClearAllSrc([d EXCEPT !.wg.sock = NoSock, !.wg.incoming_port = port]),
           LAMBDA d1 :
             IF ~d1.wg.running THEN [d |-> d1, ret |-> 0, sock_ops |-> 1]
             ELSE [d |-> IF init_ret = 0 THEN [d1 EXCEPT !.wg.sock = port] ELSE d1,
                   ret |-> init_ret, sock_ops |-> 2])

\* routing_table_insert_v4 / _v6: the slot of (family, addr, cidr) goes to the
\* peer; a table that has no room for the entry returns -ENOMEM
RoutingInsert(d, p, family, addr, cidr) ==
  LET key == [family |-> family, addr |-> addr, cidr |-> cidr]
  IN IF \E i \in RtIdx : RtSlots[i] = key
     THEN [d |-> [d EXCEPT !.rt[CHOOSE i \in RtIdx : RtSlots[i] = key] = p], ret |-> 0]
     ELSE [d |-> d, ret |-> -ENOMEM]

\* a set_allowedip that checks neither the prefix length nor the address length
set_allowedip_Unchecked(d, p, ip) ==
  IF ~ip.complete THEN [d |-> d, ret |-> -EINVAL]
  ELSE RoutingInsert(d, p, IF ip.family = AF_INET6 THEN AF_INET6 ELSE AF_INET, ip.addr,
                     IF ip.family = AF_INET6 THEN (IF ip.cidr > 64 THEN 64 ELSE ip.cidr)
                     ELSE (IF ip.cidr > 24 THEN 24 ELSE ip.cidr))

\* set_allowedip on a parsed allowed-IP nest
set_allowedip(d, p, ip) ==
  IF ~ip.complete THEN [d |-> d, ret |-> -EINVAL]
  ELSE IF ip.family = AF_INET /\ ip.cidr <= 32 /\ ip.len = IN_ADDR_LEN
  THEN RoutingInsert(d, p, AF_INET, ip.addr, ip.cidr)
  ELSE IF ip.family = AF_INET6 /\ ip.cidr <= 128 /\ ip.len = IN6_ADDR_LEN
  THEN RoutingInsert(d, p, AF_INET6, ip.addr, ip.cidr)
  ELSE [d |-> d, ret |-> -EINVAL]

\* the nla_for_each_nested loop of set_peer over WGPEER_A_ALLOWEDIPS:
\* nla_parse_nested (the policy wants at least sizeof(struct in_addr) bytes
\* of address), then set_allowedip; n counts the nests handled
RECURSIVE set_allowedips(_, _, _, _)
set_allowedips(d, p, ips, n) ==
  IF ips = <<>> THEN [d |-> d, ret |-> 0, n |-> n]
  ELSE IF Head(ips).len < IN_ADDR_LEN THEN [d |-> d, ret |-> -ERANGE, n |-> n + 1]
  ELSE Let(set_allowedip(d, p, Head(ips)),
           LAMBDA r :
             IF r.ret < 0 THEN [d |-> r.d, ret |-> r.ret, n |-> n + 1]
             ELSE set_allowedips(r.d, p, Tail(ips), n + 1))

\* peer_create: a fresh object at the tail of the list, holding the list's
\* reference; NoPeer when no memory is left
FreeSlot(d) == IF \E p \in Slots : d.peers[p].refs = 0
               THEN CHOOSE p \in Slots : d.peers[p].refs = 0 /\ \A q \in Slots : d.peers[q].refs = 0 => p <= q
               ELSE NoPeer

PeerCreate(d, public_key, preshared_key) ==
  LET p == FreeSlot(d)
  IN IF p = NoPeer THEN d
     ELSE [d EXCEPT !.peers[p] = [FreePeer EXCEPT !.refs = 1, !.remote_static = public_key,
                                                  !.preshared_key = preshared_key],
                    !.wg.peer_list = Append(@, p)]

\* socket_set_peer_endpoint: an endpoint equal to the current one is left alone
SetPeerEndpoint(d, p, family) ==
  IF d.peers[p].endpoint = family THEN d
  ELSE [d EXCEPT !.peers[p].endpoint = family, !.peers[p].src = FALSE]

EndpointOk(ep) ==
  \/ ep.len = SOCKADDR_IN_LEN /\ ep.family = AF_INET
  \/ ep.len = SOCKADDR_IN6_LEN /\ ep.family = AF_INET6

\* what the caller's pre-shared key buffer holds when set_peer returns
PskBufAfterSetPeer(a) == IF a.preshared_key # 0 THEN 0 ELSE a.preshared_key

\* a set_peer that takes the removal of a peer that does not exist for done
RemoveAbsentRet_Ignored == ENODEV - ENODEV

\* a set_peer without the self-key test
IsOwnKey_Never(d, a) == FALSE

\* what set_peer returns for the removal of a peer that does not exist
RemoveAbsentRet == -ENODEV

\* the self-key test of set_peer
IsOwnKey(d, a) == d.wg.has_identity /\ a.public_key = d.wg.static_public

\* the pre-shared key set_peer works with: the attribute when it has the
\* length of a key
PresharedKey(a) ==
  IF a.preshared_key # 0 /\ a.preshared_key_len = KEY_LEN THEN a.preshared_key ELSE 0

\* the part of set_peer after the peer is looked up or created: removal, or
\* the pre-shared key, the endpoint, the replace flag, the allowed IPs and
\* the keepalive interval
set_peer_fields(d, peer, a) ==
  IF a.remove THEN [d |-> PeerRemove(d, peer), ret |-> 0, n |-> 0]
  ELSE
  Let(IF PresharedKey(a) # 0 THEN [d EXCEPT !.peers[peer].preshared_key = PresharedKey(a)]
      ELSE d,
      LAMBDA d2 :
  Let(IF a.endpoint.len # 0 /\ EndpointOk(a.endpoint)
      THEN SetPeerEndpoint(d2, peer, a.endpoint.family) ELSE d2,
      LAMBDA d3 :
  Let(IF a.replace_allowedips THEN [d3 EXCEPT !.rt = RoutingRemoveByPeer(@, peer)] ELSE d3,
      LAMBDA d4 :
  Let(set_allowedips(d4, peer, a.allowedips, 0),
      LAMBDA ips :
        IF ips.ret < 0 THEN [d |-> ips.d, ret |-> ips.ret, n |-> ips.n]
        ELSE [d |-> IF a.keepalive # NoAttr
                    THEN [ips.d EXCEPT !.peers[peer].persistent_keepalive_interval
                                          = a.keepalive * HZ]
                    ELSE ips.d,
              ret |-> 0, n |-> ips.n]))))

\* set_peer on a parsed peer nest a.  Returns the device, the errno and the
\* number of allowed-IP nests handled.
set_peer(d, a) ==
  IF a.public_key = 0 \/ a.public_key_len # KEY_LEN THEN [d |-> d, ret |-> -EINVAL, n |-> 0]
  ELSE
  Let(Lookup(d, a.public_key),
      LAMBDA found :
        IF found # NoPeer THEN set_peer_fields(d, found, a)
        ELSE IF a.remove THEN [d |-> d, ret |-> RemoveAbsentRet, n |-> 0]
        ELSE IF IsOwnKey(d, a) THEN [d |-> d, ret |-> 0, n |-> 0]
        ELSE IF FreeSlot(d) = NoPeer THEN [d |-> d, ret |-> -ENOMEM, n |-> 0]
        ELSE set_peer_fields(PeerCreate(d, a.public_key, PresharedKey(a)), FreeSlot(d), a))

\* a set() whose loop over the peer nests goes on after a nest failed
RECURSIVE set_peers_KeepGoing(_, _, _)
set_peers_KeepGoing(d, as, trace) ==
  IF as = <<>> THEN [d |-> d, ret |-> 0, trace |-> trace]
  ELSE
  Let(IF Head(as).parse_ok THEN set_peer(d, Head(as)) ELSE [d |-> d, ret |-> -EINVAL, n |-> 0],
      LAMBDA r :
        set_peers_KeepGoing(r.d, Tail(as),
          Append(trace, [ret |-> r.ret, d |-> r.d, n |-> r.n,
                         psk |-> IF Head(as).parse_ok THEN PskBufAfterSetPeer(Head(as))
                                 ELSE Head(as).preshared_key])))

\* the nla_for_each_nested loop of set() over WGDEVICE_A_PEERS: nla_parse_nested
\* against peer_policy, then set_peer.  trace holds, per nest handled, the
\* errno, the device after it and the state of the nest's key buffer.
RECURSIVE set_peers(_, _, _)
set_peers(d, as, trace) ==
  IF as = <<>> THEN [d |-> d, ret |-> 0, trace |-> trace]
  ELSE
  Let(IF Head(as).parse_ok THEN set_peer(d, Head(as)) ELSE [d |-> d, ret |-> -EINVAL, n |-> 0],
      LAMBDA r :
  Let(Append(trace, [ret |-> r.ret, d |-> r.d, n |-> r.n,
                     psk |-> IF Head(as).parse_ok THEN PskBufAfterSetPeer(Head(as))
                             ELSE Head(as).preshared_key]),
      LAMBDA t :
        IF r.ret < 0 THEN [d |-> r.d, ret |-> r.ret, trace |-> t]
        ELSE set_peers(r.d, Tail(as), t)))

\* peer_remove_all
RECURSIVE PeerRemoveAll(_)
PeerRemoveAll(d) ==
  IF d.wg.peer_list = <<>> THEN d ELSE PeerRemoveAll(PeerRemove(d, Head(d.wg.peer_list)))

\* a set() that does not look at the replace-peers flag
replace_peers_Ignored(d, req) == d

\* the replace-peers step of set() (lines 409-410)
replace_peers(d, req) == IF req.replace_peers THEN PeerRemoveAll(d) ELSE d

\* a private-key step that keeps the peers whose precomputation fails
PrecomputeAll_KeepAll(d, todo) == d

\* the peer_for_each loop of the private-key step: a peer whose precomputation
\* fails is removed
RECURSIVE PrecomputeAll(_, _)
PrecomputeAll(d, todo) ==
  IF todo = <<>> THEN d
  ELSE PrecomputeAll(IF PrecomputeOk(d, Head(todo)) THEN d ELSE PeerRemove(d, Head(todo)),
                     Tail(todo))

\* a private-key step that keeps a peer whose key is the new public key
set_private_key_KeepPeer(d, private_key) ==
  Let([d EXCEPT !.wg.has_identity = TRUE, !.wg.static_private = private_key,
                !.wg.static_public = DerivePublic(private_key)],
      LAMBDA d2 : PrecomputeAll(d2, d2.wg.peer_list))

\* the private-key step of set() (lines 412-428)
set_private_key(d, private_key) ==
  Let(Lookup(d, DerivePublic(private_key)),
      LAMBDA peer :
  Let([(IF peer # NoPeer THEN PeerRemove(d, peer) ELSE d)
         EXCEPT !.wg.has_identity = TRUE, !.wg.static_private = private_key,
                !.wg.static_public = DerivePublic(private_key)],
      LAMBDA d2 : PrecomputeAll(d2, d2.wg.peer_list)))

\* a set() that leaves the generation alone
BumpGeneration_Skipped(d) == d

\* ++wg->device_update_gen, under the update lock
BumpGeneration(d) == [d EXCEPT !.wg.device_update_gen = @ + 1]

\* what the caller's private-key buffer holds when set() returns
PrivBufAfterSet(req) == IF req.private_key # 0 THEN 0 ELSE req.private_key

\* the pre-shared key buffers of a request's peer nests when set() returns:
\* those of the nests set_peers got to are as the trace says, the others are
\* as the caller sent them
PskBufs(req, trace) ==
  [i \in 1..Len(req.peers) |->
     IF i <= Len(trace) THEN trace[i].psk ELSE req.peers[i].preshared_key]

\* set: WG_CMD_SET_DEVICE's .doit.  steps are the devices after the
\* generation bump, the firewall mark, the port, the replace-peers flag and
\* the private key (as far as the call got); trace is that of set_peers.
set(d, req, init_ret) ==
  IF lookup_interface(req.sel) # 0
  THEN [d |-> d, ret |-> lookup_interface(req.sel), locked |-> FALSE, steps |-> <<>>,
        trace |-> <<>>, sock_ops |-> 0, priv_buf |-> PrivBufAfterSet(req),
        psk_bufs |-> PskBufs(req, <<>>)]
  ELSE
  Let(BumpGeneration(d),
      LAMBDA d0 :
  Let(IF req.fwmark # NoAttr THEN ClearAllSrc([d0 EXCEPT !.wg.fwmark = req.fwmark]) ELSE d0,
      LAMBDA d1 :
  Let(IF req.listen_port # NoAttr THEN set_device_port(d1, req.listen_port, init_ret)
      ELSE [d |-> d1, ret |-> 0, sock_ops |-> 0],
      LAMBDA port :
        IF port.ret # 0
        THEN [d |-> port.d, ret |-> port.ret, locked |-> TRUE, steps |-> <<d0, d1, port.d>>,
              trace |-> <<>>, sock_ops |-> port.sock_ops,
              priv_buf |-> PrivBufAfterSet(req), psk_bufs |-> PskBufs(req, <<>>)]
        ELSE
  Let(replace_peers(port.d, req),
      LAMBDA d3 :
  Let(IF req.private_key # 0 /\ req.private_key_len = KEY_LEN
      THEN set_private_key(d3, req.private_key) ELSE d3,
      LAMBDA d4 :
  Let(set_peers(d4, req.peers, <<>>),
      LAMBDA list :
        [d |-> list.d, ret |-> list.ret, locked |-> TRUE,
         steps |-> <<d0, d1, port.d, d3, d4>>,
         trace |-> list.trace, sock_ops |-> port.sock_ops,
         priv_buf |-> PrivBufAfterSet(req), psk_bufs |-> PskBufs(req, list.trace)]))))))

\* the device as the operators thread it
Dev == [wg |-> wg, peers |-> peers, rt |-> rt]

NoCb ==
  [active |-> FALSE, more |-> FALSE, args1 |-> NoPeer, args2 |-> 0,
   seq |-> 0, prev_seq |-> 0, holds |-> FALSE]

\* n chunks asked for; device: the chunks (by number) that carried the device's
\* fields; frags: the peer nests written, in order; ips: the allowed-IP nests
\* written, in order, each with its peer; stable: no set() took the lock since
\* the dump began; lastSeq: the sequence number of the latest chunk; touched:
\* a set() took the lock since the latest chunk
NoDump ==
  [n |-> 0, device |-> {}, frags |-> <<>>, ips |-> <<>>, stable |-> TRUE,
   lastSeq |-> -1, touched |-> FALSE]

\* the allowed-IP nests of a sequence of peer nests, each with its peer
RECURSIVE IpsOf(_)
IpsOf(frags) ==
  IF frags = <<>> THEN <<>>
  ELSE [i \in 1..Len(Head(frags).ips) |-> <<Head(frags).peer, Head(frags).ips[i]>>]
       \o IpsOf(Tail(frags))

\* the ghost record of a dump after a chunk was delivered
Delivered(g, chunk) ==
  IF ~g.stable THEN [g EXCEPT !.n = @ + 1, !.lastSeq = chunk.seq, !.touched = FALSE]
  ELSE [g EXCEPT !.n = @ + 1, !.lastSeq = chunk.seq, !.touched = FALSE,
                 !.device = IF chunk.device THEN @ \cup {g.n + 1} ELSE @,
                 !.frags = @ \o [i \in 1..Len(chunk.peers) |->
                                   [peer |-> chunk.peers[i].peer,
                                    public_key |-> chunk.peers[i].public_key,
                                    full |-> chunk.peers[i].full]],
                 !.ips = @ \o IpsOf(chunk.peers)]

NoCall == [op |-> "none", ret |-> 0]

\* no call of get() or set() is in progress
NoCalls == [get |-> "idle", cap |-> 0, set |-> "idle", req |-> 0, init_ret |-> 0]

Init ==
  /\ wg = [incoming_port |-> 0, fwmark |-> 0, has_identity |-> FALSE,
           static_private |-> 0, static_public |-> 0, device_update_gen |-> 0,
           peer_list |-> <<>>, running |-> FALSE, sock |-> NoSock, dev_refs |-> 0]
  /\ peers = [p \in Slots |-> FreePeer]
  /\ rt = [i \in RtIdx |-> 0]
  /\ cb = NoCb
  /\ dump = NoDump
  /\ last = NoCall
  /\ uaf = FALSE
  /\ lock = "none"
  /\ pc = NoCalls

\* get_start: WG_CMD_GET_DEVICE's .start; cb->args[0] holds the device
DumpStart(sel) ==
  /\ ~uaf /\ ~cb.active
  /\ LET ret == lookup_interface(sel)
     IN /\ cb' = IF ret = 0 THEN [NoCb EXCEPT !.active = TRUE, !.more = TRUE] ELSE cb
        /\ wg' = IF ret = 0 THEN [wg EXCEPT !.dev_refs = @ + 1] ELSE wg
        /\ last' = [op |-> "DumpStart", ret |-> ret, sel |-> sel]
  /\ dump' = NoDump
  /\ UNCHANGED <<peers, rt, uaf, lock, pc>>

\* what one call of get() with a message of cap bytes does to the dump
GetChunk(cap) ==
  /\ ~uaf /\ cb.active /\ cb.more /\ dump.n < MaxChunks
  /\ LET r == get(Dev, cb, cap)
     IN /\ peers' = r.peers
        /\ cb' = [cb EXCEPT !.args1 = r.args1, !.args2 = r.args2,
                            !.seq = r.seq,
                            !.prev_seq = IF r.hdr_ok THEN r.seq ELSE @,
                            !.more = r.ret > 0,
                            !.holds = r.ret > 0 /\ r.args1 # NoPeer]
        /\ dump' = IF r.ret < 0 THEN [dump EXCEPT !.n = @ + 1] ELSE Delivered(dump, r.chunk)
        /\ last' = [op |-> "DumpNext", ret |-> r.ret, done |-> r.done,
                    touched |-> dump.touched, prevSeq |-> dump.lastSeq,
                    seq |-> r.seq, cap |-> cap, first |-> cb.args1 = NoPeer,
                    identity |-> wg.has_identity, cursor |-> cb.args1,
                    cursor2 |-> cb.args2,
                    cursor_refs |-> IF cb.args1 = NoPeer THEN 0 ELSE peers[cb.args1].refs,
                    npeers |-> Len(r.chunk.peers)]
  /\ UNCHANGED <<wg, rt, uaf>>

\* get: WG_CMD_GET_DEVICE's .dumpit, one chunk into a message of cap bytes
DumpNext(cap) ==
  /\ GetChunk(cap)
  /\ UNCHANGED <<lock, pc>>

\* get_done: WG_CMD_GET_DEVICE's .done, called when the dump is over or abandoned
DumpEnd ==
  /\ ~uaf /\ cb.active
  /\ wg' = [wg EXCEPT !.dev_refs = @ - 1]
  /\ IF cb.args1 # NoPeer /\ ~cb.holds
     THEN uaf' = TRUE /\ UNCHANGED peers
     ELSE uaf' = uaf /\ peers' = PeerPut(peers, cb.args1)
  /\ cb' = NoCb
  /\ last' = [op |-> "DumpEnd", ret |-> 0]
  /\ dump' = NoDump
  /\ UNCHANGED <<rt, lock, pc>>

\* whether set() on req gets as far as calling socket_init
SocketInitCalled(d, req) ==
  /\ lookup_interface(req.sel) = 0 /\ d.wg.running
  /\ req.listen_port # NoAttr /\ req.listen_port # d.wg.incoming_port

\* what one call of set() on request req does; init_ret is what socket_init
\* returns if the call gets to it
SetRequest(req, init_ret) ==
  /\ ~uaf /\ wg.device_update_gen < MaxGen
  /\ init_ret # 0 => SocketInitCalled(Dev, req)
  /\ LET r == set(Dev, req, init_ret)
     IN /\ wg' = r.d.wg
        /\ peers' = r.d.peers
        /\ rt' = r.d.rt
        /\ dump' = IF cb.active /\ r.locked
                   THEN [NoDump EXCEPT !.n = dump.n, !.stable = FALSE,
                                       !.lastSeq = dump.lastSeq, !.touched = TRUE]
                   ELSE dump
        /\ last' = [op |-> "ApplyConfig", req |-> req, ret |-> r.ret, locked |-> r.locked,
                    pre |-> Dev, steps |-> r.steps, trace |-> r.trace,
                    sock_ops |-> r.sock_ops, priv_buf |-> r.priv_buf,
                    psk_bufs |-> r.psk_bufs]
  /\ UNCHANGED <<cb, uaf>>

\* set: WG_CMD_SET_DEVICE's .doit
ApplyConfig(req, init_ret) ==
  /\ SetRequest(req, init_ret)
  /\ UNCHANGED <<lock, pc>>

\* ------------------------------------------------------- the environment
\* ndo_open / ndo_stop of the device: the interface goes up (the socket is
\* bound to the listening port) or down
DeviceUp ==
  /\ ~uaf /\ ~wg.running
  /\ wg' = [wg EXCEPT !.running = TRUE, !.sock = wg.incoming_port]
  /\ last' = [op |-> "DeviceUp", ret |-> 0]
  /\ UNCHANGED <<peers, rt, cb, dump, uaf, lock, pc>>

DeviceDown ==
  /\ ~uaf /\ wg.running
  /\ wg' = [wg EXCEPT !.running = FALSE, !.sock = NoSock]
  /\ last' = [op |-> "DeviceDown", ret |-> 0]
  /\ UNCHANGED <<peers, rt, cb, dump, uaf, lock, pc>>

\* the receive path: a packet from a peer that has an endpoint caches the
\* source address and interface it arrived on
ReceiveFrom(p) ==
  /\ ~uaf /\ wg.running
  /\ p \in Range(wg.peer_list) /\ peers[p].endpoint # 0 /\ ~peers[p].src
  /\ peers' = [peers EXCEPT ![p].src = TRUE]
  /\ last' = [op |-> "ReceiveFrom", ret |-> 0]
  /\ UNCHANGED <<wg, rt, cb, dump, uaf, lock, pc>>

\* ---------------------------------------------------------------- inputs
GoodSel == [ifindex |-> WgIndex, ifname |-> NoName]
NoEndpoint == [family |-> 0, len |-> 0]
EndpointV4 == [family |-> AF_INET, len |-> SOCKADDR_IN_LEN]
EndpointV6 == [family |-> AF_INET6, len |-> SOCKADDR_IN6_LEN]
EndpointBad == [family |-> AF_INET, len |-> SOCKADDR_IN6_LEN]

Ip(family, addr, cidr, len) ==
  [family |-> family, addr |-> addr, cidr |-> cidr, len |-> len, complete |-> TRUE]
Ip1 == Ip(AF_INET, 1, 24, IN_ADDR_LEN)
Ip2 == Ip(AF_INET, 2, 32, IN_ADDR_LEN)
Ip3 == Ip(AF_INET6, 1, 64, IN6_ADDR_LEN)
BadIps ==
  { Ip(AF_INET, 1, 33, IN_ADDR_LEN),        \* prefix beyond 32
    Ip(AF_INET6, 1, 129, IN6_ADDR_LEN),     \* prefix beyond 128
    Ip(AF_INET, 1, 24, IN6_ADDR_LEN),       \* address length of the other family
    Ip(AF_INET6, 1, 64, IN_ADDR_LEN),
    Ip(AF_OTHER, 1, 24, IN_ADDR_LEN),       \* unsupported family
    Ip(AF_INET, 1, 24, 2),                  \* shorter than the policy allows
    Ip(AF_INET, 9, 24, IN_ADDR_LEN),        \* no room in the table
    [Ip1 EXCEPT !.complete = FALSE] }       \* an attribute missing

BasePeer ==
  [parse_ok |-> TRUE, public_key |-> 0, public_key_len |-> KEY_LEN,
   preshared_key |-> 0, preshared_key_len |-> KEY_LEN,
   remove |-> FALSE, replace_allowedips |-> FALSE, endpoint |-> NoEndpoint,
   allowedips |-> <<>>, keepalive |-> NoAttr]

BaseReq ==
  [sel |-> GoodSel, fwmark |-> NoAttr, listen_port |-> NoAttr, replace_peers |-> FALSE,
   private_key |-> 0, private_key_len |-> KEY_LEN, peers |-> <<>>]

\* every combination of the fields of a peer nest, for the keys in K
PeerNests(K) ==
  { [BasePeer EXCEPT !.public_key = k, !.preshared_key = psk, !.remove = rm,
                     !.replace_allowedips = rp, !.endpoint = ep, !.allowedips = ips,
                     !.keepalive = ka] :
      k \in K, psk \in {0, 7}, rm \in BOOLEAN, rp \in BOOLEAN,
      ep \in {NoEndpoint, EndpointV4}, ips \in {<<>>, <<Ip1, Ip3>>}, ka \in {NoAttr, 25} }

\* a peer nest with an allowed-IP entry that must be refused between two good ones
BadIpNests ==
  { [BasePeer EXCEPT !.public_key = 2, !.preshared_key = 7, !.keepalive = 25,
                     !.allowedips = <<Ip2, bad, Ip3>>] : bad \in BadIps }

\* malformed peer nests
OddNests ==
  { [BasePeer EXCEPT !.parse_ok = FALSE, !.public_key = 2, !.preshared_key = 7],
    [BasePeer EXCEPT !.preshared_key = 7],
    [BasePeer EXCEPT !.public_key = 2, !.public_key_len = 40],
    [BasePeer EXCEPT !.public_key = 2, !.preshared_key = 7, !.preshared_key_len = 40],
    [BasePeer EXCEPT !.public_key = 2, !.endpoint = EndpointBad],
    [BasePeer EXCEPT !.public_key = 2, !.endpoint = EndpointV6, !.allowedips = <<Ip2>>],
    [BasePeer EXCEPT !.public_key = 1, !.remove = TRUE,
                     !.allowedips = <<Ip(AF_INET, 1, 33, IN_ADDR_LEN)>>],
    [BasePeer EXCEPT !.public_key = 1, !.allowedips = <<Ip(AF_INET, 1, 33, IN_ADDR_LEN)>>] }

\* the nests that batches of two are made of
PairNests ==
  { [BasePeer EXCEPT !.public_key = 1, !.preshared_key = 7, !.endpoint = EndpointV4,
                     !.allowedips = <<Ip1, Ip2>>],
    [BasePeer EXCEPT !.public_key = 2, !.allowedips = <<Ip2, Ip3>>],
    [BasePeer EXCEPT !.public_key = 1, !.remove = TRUE],
    [BasePeer EXCEPT !.public_key = 3, !.preshared_key = 7, !.remove = TRUE],
    [BasePeer EXCEPT !.public_key = 2, !.preshared_key = 7,
                     !.allowedips = <<Ip1, Ip(AF_INET, 1, 33, IN_ADDR_LEN), Ip2>>],
    [BasePeer EXCEPT !.parse_ok = FALSE, !.public_key = 2, !.preshared_key = 7] }

PeerRequests ==
  { [BaseReq EXCEPT !.peers = <<a>>] : a \in PeerNests({1}) \cup BadIpNests \cup OddNests }
  \cup { [BaseReq EXCEPT !.peers = <<a, b>>] : a \in PairNests, b \in PairNests }
  \cup { [BaseReq EXCEPT !.peers =
            <<[BasePeer EXCEPT !.public_key = 1, !.allowedips = <<Ip1>>],
              [BasePeer EXCEPT !.public_key = 3, !.preshared_key = 7, !.remove = TRUE],
              [BasePeer EXCEPT !.public_key = 2, !.preshared_key = 7, !.allowedips = <<Ip2>>]>>] }

DeviceRequests ==
  { [BaseReq EXCEPT !.fwmark = fw, !.listen_port = port, !.replace_peers = rp,
                    !.private_key = key[1], !.private_key_len = key[2], !.peers = as] :
      fw \in {NoAttr, 1}, port \in {NoAttr} \cup Ports, rp \in BOOLEAN,
      key \in {<<0, KEY_LEN>>, <<11, KEY_LEN>>, <<13, 40>>},
      as \in {<<>>, <<[BasePeer EXCEPT !.public_key = 1, !.preshared_key = 7]>>} }

BadSelRequests ==
  { [BaseReq EXCEPT !.sel = sel, !.private_key = 11,
                    !.peers = <<[BasePeer EXCEPT !.public_key = 1, !.preshared_key = 7]>>] :
      sel \in {s \in Selectors : lookup_interface(s) # 0} }

\* a rotation to a key whose public key no request uses for a peer
KeyRequests ==
  { [BaseReq EXCEPT !.private_key = 13],
    [BaseReq EXCEPT !.private_key = 13, !.peers = <<[BasePeer EXCEPT !.public_key = 3]>>] }

\* replacements of the whole peer set, with and without a new private key
ReplaceNests ==
  { [BasePeer EXCEPT !.public_key = 1, !.endpoint = EndpointV4, !.allowedips = <<Ip1, Ip2>>],
    [BasePeer EXCEPT !.public_key = 1, !.remove = TRUE],
    [BasePeer EXCEPT !.public_key = 2, !.allowedips = <<Ip2, Ip3>>] }
ReplaceRequests ==
  { [BaseReq EXCEPT !.replace_peers = TRUE, !.private_key = k, !.peers = <<a, b>>] :
      k \in {0, 11}, a \in ReplaceNests, b \in ReplaceNests }

Requests ==
  PeerRequests \cup DeviceRequests \cup BadSelRequests \cup KeyRequests \cup ReplaceRequests

SocketInitResults == {0, -EADDRINUSE}

\* --------------------------------------------------------- specifications
\* applies only, with the environment
NextApply ==
  \/ \E req \in Requests, init_ret \in SocketInitResults : ApplyConfig(req, init_ret)
  \/ DeviceUp
  \/ DeviceDown
  \/ \E p \in Slots : ReceiveFrom(p)

SpecApply == Init /\ [][NextApply]_vars

\* the sizes of the messages a dump is given
MsgSizes == {16, 40, 100, 160, 240, 300, 440}

\* the requests made while dumps are in progress
FewRequests ==
  { [BaseReq EXCEPT !.peers =
       <<[BasePeer EXCEPT !.public_key = 1, !.preshared_key = 7, !.endpoint = EndpointV4,
                          !.allowedips = <<Ip1>>],
         [BasePeer EXCEPT !.public_key = 2, !.allowedips = <<Ip2, Ip3>>]>>],
    [BaseReq EXCEPT !.peers = <<[BasePeer EXCEPT !.public_key = 1, !.remove = TRUE]>>],
    [BaseReq EXCEPT !.fwmark = 1, !.listen_port = 51820],
    [BaseReq EXCEPT !.private_key = 13],
    [BaseReq EXCEPT !.replace_peers = TRUE,
                    !.peers = <<[BasePeer EXCEPT !.public_key = 3,
                                                 !.allowedips = <<Ip1, Ip2, Ip3>>]>>],
    [BaseReq EXCEPT !.replace_peers = TRUE,
                    !.peers = <<[BasePeer EXCEPT !.public_key = 1, !.endpoint = EndpointV4],
                                [BasePeer EXCEPT !.public_key = 2,
                                                 !.allowedips = <<Ip1, Ip2, Ip3>>]>>],
    [BaseReq EXCEPT !.sel = [ifindex |-> WgIndex, ifname |-> "wg0"], !.private_key = 11],
    [BaseReq EXCEPT !.sel = [ifindex |-> NoIndex, ifname |-> NoName], !.fwmark = 1,
                    !.peers = <<[BasePeer EXCEPT !.public_key = 3]>>] }

\* dumps and applies in any order, with the environment
Next ==
  \/ \E sel \in Selectors : DumpStart(sel)
  \/ \E cap \in MsgSizes : DumpNext(cap)
  \/ DumpEnd
  \/ \E req \in FewRequests, init_ret \in SocketInitResults : ApplyConfig(req, init_ret)
  \/ DeviceUp
  \/ DeviceDown
  \/ \E p \in Slots : ReceiveFrom(p)

Spec == Init /\ [][Next]_vars

\* ------------------------------------------------ the critical sections
\* get() and set() take the rtnl lock and wg->device_update_lock together and
\* hold them for the whole of their work; the steps below take a call apart
\* into entering the critical section and leaving it with its work done.

\* a call of get() that fails with ret leaves without passing through out:
get_exit_ReturnOnError(ret) == IF ret < 0 THEN "return" ELSE "out"

\* the label a call of get() that returns ret leaves through: the failures
\* of genlmsg_put, of the device fields and of the peers nest, the removed
\* cursor and the end of the loop all go to out:
get_exit(ret) == "out"

\* the label a call of set() leaves through: out_nodev when the interface
\* was not found, out otherwise
set_exit(locked) == IF locked THEN "out" ELSE "out_nodev"

\* mutex_unlock and rtnl_unlock at out:, by the holder of the lock
Unlock(label, owner) == IF label = "out" THEN "none" ELSE owner

\* get: rtnl_lock, mutex_lock
GetLock(cap) ==
  /\ ~uaf /\ cb.active /\ cb.more /\ dump.n < MaxChunks
  /\ pc.get = "idle" /\ lock = "none"
  /\ lock' = "get"
  /\ pc' = [pc EXCEPT !.get = "locked", !.cap = cap]
  /\ UNCHANGED <<wg, peers, rt, cb, dump, last, uaf>>

\* get: the chunk is written and the call leaves
GetUnlock ==
  /\ pc.get = "locked"
  /\ GetChunk(pc.cap)
  /\ lock' = Unlock(get_exit(last'.ret), lock)
  /\ pc' = [pc EXCEPT !.get = "idle", !.cap = 0]

\* get_done, after the last call of get() has returned
DumpFinish ==
  /\ pc.get = "idle"
  /\ DumpEnd

\* set: the interface is found; rtnl_lock, mutex_lock
SetLock(req, init_ret) ==
  /\ ~uaf /\ wg.device_update_gen < MaxGen
  /\ lookup_interface(req.sel) = 0
  /\ init_ret # 0 => SocketInitCalled(Dev, req)
  /\ pc.set = "idle" /\ lock = "none"
  /\ lock' = "set"
  /\ pc' = [pc EXCEPT !.set = "locked", !.req = req, !.init_ret = init_ret]
  /\ UNCHANGED <<wg, peers, rt, cb, dump, last, uaf>>

\* set: the request is applied and the call leaves
SetUnlock ==
  /\ pc.set = "locked"
  /\ SetRequest(pc.req, pc.init_ret)
  /\ lock' = Unlock(set_exit(last'.locked), lock)
  /\ pc' = [pc EXCEPT !.set = "idle", !.req = 0, !.init_ret = 0]

\* set: the interface is not found and the call leaves through out_nodev
SetNoDevice(req) ==
  /\ lookup_interface(req.sel) # 0
  /\ pc.set = "idle"
  /\ SetRequest(req, 0)
  /\ lock' = Unlock(set_exit(last'.locked), lock)
  /\ UNCHANGED pc

\* ndo_open and ndo_stop are called with the rtnl lock held
LinkUp ==
  /\ lock = "none"
  /\ DeviceUp

LinkDown ==
  /\ lock = "none"
  /\ DeviceDown

\* the sizes of the messages and the requests of the interleaved calls
LockSizes == {16, 100, 240, 440}
LockRequests ==
  { [BaseReq EXCEPT !.peers =
       <<[BasePeer EXCEPT !.public_key = 1, !.preshared_key = 7, !.endpoint = EndpointV4,
                          !.allowedips = <<Ip1>>],
         [BasePeer EXCEPT !.public_key = 2, !.allowedips = <<Ip2, Ip3>>]>>],
    [BaseReq EXCEPT !.peers = <<[BasePeer EXCEPT !.public_key = 1, !.remove = TRUE]>>],
    [BaseReq EXCEPT !.fwmark = 1, !.listen_port = 51820],
    [BaseReq EXCEPT !.sel = [ifindex |-> NoIndex, ifname |-> NoName], !.fwmark = 1] }

NextLock ==
  \/ \E sel \in Selectors : DumpStart(sel)
  \/ \E cap \in LockSizes : GetLock(cap)
  \/ GetUnlock
  \/ DumpFinish
  \/ \E req \in LockRequests, init_ret \in SocketInitResults : SetLock(req, init_ret)
  \/ SetUnlock
  \/ \E req \in LockRequests : SetNoDevice(req)
  \/ LinkUp
  \/ LinkDown
  \/ \E p \in Slots : ReceiveFrom(p)

SpecLock == Init /\ [][NextLock]_vars

\* ------------------------------------------------ the last call to set()
Applied == last.op = "ApplyConfig"
Nest(i) == last.req.peers[i]
\* the device when set() comes to the i-th peer nest
BeforeNest(i) == IF i = 1 THEN last.steps[5] ELSE last.trace[i - 1].d
HasKey(d, k) == \E p \in Range(d.wg.peer_list) : d.peers[p].remote_static = k
WellFormed(i) == Nest(i).parse_ok /\ Nest(i).public_key # 0 /\ Nest(i).public_key_len = KEY_LEN
OwnKeyNest(i) ==
  /\ WellFormed(i)
  /\ BeforeNest(i).wg.has_identity
  /\ Nest(i).public_key = BeforeNest(i).wg.static_public
\* the i-th nest returned success, changed nothing, and the next one was handled
NestIsNoOp(i) ==
  /\ last.trace[i].ret = 0
  /\ last.trace[i].d = BeforeNest(i)
  /\ i < Len(last.req.peers) => Len(last.trace) > i
\* the i-th nest failed with errno e, changed nothing, and ended the call
NestAborts(i, e) ==
  /\ last.trace[i].ret = e /\ last.ret = e
  /\ last.trace[i].d = BeforeNest(i)
  /\ Len(last.trace) = i
  /\ Dev = BeforeNest(i)

\* C4 (as claimed): when ApplyConfig has returned, on whatever path, the
\* private-key buffer and the pre-shared-key buffer of every peer entry of the
\* request hold only zero bytes.
C4_KeyBuffersZeroed ==
  Applied => /\ last.priv_buf = 0
             /\ \A i \in DOMAIN last.psk_bufs : last.psk_bufs[i] = 0

\* C5 (as claimed): a peer entry whose public key is the device's own is a
\* no-op returning success, whatever its other fields and flags are, and the
\* next entry is processed.
C5_SelfPeerAlwaysNoOp ==
  Applied => \A i \in 1..Len(last.trace) : OwnKeyNest(i) => NestIsNoOp(i)

\* C5 (amended): a peer entry whose public key is the device's own is a no-op
\* returning success for every combination of its other fields unless it
\* carries the removal flag; with the removal flag it fails with ENODEV and
\* ends the call.  Either way no peer is created and the peer list and the
\* routing table are as they were before the entry.
C5_SelfPeerNoOpUnlessRemoval ==
  Applied => \A i \in 1..Len(last.trace) :
               OwnKeyNest(i) => IF Nest(i).remove THEN NestAborts(i, -ENODEV)
                                ELSE NestIsNoOp(i)

C5_Witness ==
  /\ Applied /\ Len(last.trace) = 2 /\ OwnKeyNest(1)
  /\ Nest(1).preshared_key # 0 /\ Nest(1).allowedips # <<>> /\ Nest(1).endpoint # NoEndpoint
  /\ last.trace[2].d # last.trace[1].d

\* C6: the removal of a public key that the device does not hold fails with
\* ENODEV, creates no peer and ends the call: no later entry is handled, and
\* the device is left as the earlier entries made it.
C6_RemoveUnknownPeer ==
  Applied => \A i \in 1..Len(last.trace) :
               (WellFormed(i) /\ Nest(i).remove /\ ~HasKey(BeforeNest(i), Nest(i).public_key))
                 => NestAborts(i, -ENODEV)

C6_Witness ==
  /\ Applied /\ Len(last.req.peers) = 3 /\ Len(last.trace) = 2
  /\ Nest(2).remove /\ ~HasKey(BeforeNest(2), Nest(2).public_key)
  /\ BeforeNest(2) # BeforeNest(1)
  /\ HasKey(Dev, Nest(1).public_key) /\ ~HasKey(Dev, Nest(3).public_key)

\* an allowed-IP entry that the claim calls invalid
Invalid(ip) ==
  \/ ip.family = AF_INET /\ (ip.cidr > 32 \/ ip.len # IN_ADDR_LEN)
  \/ ip.family = AF_INET6 /\ (ip.cidr > 128 \/ ip.len # IN6_ADDR_LEN)
  \/ ip.family \notin {AF_INET, AF_INET6}
RtKey(ip) == [family |-> ip.family, addr |-> ip.addr, cidr |-> ip.cidr]

\* C7 (as claimed): a request that holds an invalid allowed-IP entry makes
\* ApplyConfig return an error.
C7_InvalidAllowedIpAlwaysFails ==
  Applied => \A i \in DOMAIN last.req.peers : \A j \in DOMAIN Nest(i).allowedips :
               Invalid(Nest(i).allowedips[j]) => last.ret < 0

\* the i-th nest is one whose allowed-IP list set_peer comes to: well formed,
\* no removal, not the device's own key
UpdateNest(i) == WellFormed(i) /\ ~Nest(i).remove /\ ~OwnKeyNest(i)

\* C7 (amended): an invalid allowed-IP entry in a peer entry that is
\* processed as an update (not a removal, not the device's own key) is
\* rejected: the entry fails, the call returns that error, no later peer entry
\* is handled, no allowed-IP entry after it is handled, and the routing table
\* differs from the one before the peer entry only by the flag-requested
\* clearing and by the valid entries that precede the invalid one.
C7_InvalidAllowedIpRejected ==
  Applied => \A i \in 1..Len(last.trace) : \A j \in DOMAIN Nest(i).allowedips :
    (UpdateNest(i) /\ Invalid(Nest(i).allowedips[j])) =>
      /\ last.trace[i].ret < 0 /\ last.ret = last.trace[i].ret
      /\ Len(last.trace) = i
      /\ last.trace[i].n <= j
      /\ \A s \in RtIdx :
           \/ rt[s] = BeforeNest(i).rt[s]
           \/ Nest(i).replace_allowedips /\ rt[s] = 0
           \/ \E k \in 1..(j - 1) : /\ ~Invalid(Nest(i).allowedips[k])
                                    /\ RtKey(Nest(i).allowedips[k]) = RtSlots[s]

C7_Witness ==
  /\ Applied /\ Len(last.req.peers) = 2 /\ Len(last.trace) = 1 /\ UpdateNest(1)
  /\ Len(Nest(1).allowedips) = 3 /\ Invalid(Nest(1).allowedips[2])
  /\ last.trace[1].n = 2 /\ last.ret = -EINVAL
  /\ rt # BeforeNest(1).rt

PortChanged ==
  /\ Applied /\ last.locked /\ last.req.listen_port # NoAttr
  /\ last.req.listen_port # last.pre.wg.incoming_port
PortSame ==
  /\ Applied /\ last.locked /\ last.req.listen_port = last.pre.wg.incoming_port
\* every peer of the list of d has no cached source binding
AllSrcCleared(d) == \A p \in Range(d.wg.peer_list) : ~d.peers[p].src
C8_PortChange ==
  PortChanged => /\ last.steps[3].wg.peer_list = last.pre.wg.peer_list
                 /\ AllSrcCleared(last.steps[3])
                 /\ AllSrcCleared(Dev)

\* C8 (as claimed): a call that changes the port clears the binding of every
\* peer, active or not, rebind failed or not; a call whose port equals the
\* current one leaves the transport and every peer's binding as they were.
C8_SamePortTouchesNothing ==
  /\ C8_PortChange
  /\ PortSame =>
       /\ last.sock_ops = 0 /\ wg.sock = last.pre.wg.sock
       /\ \A p \in Range(last.pre.wg.peer_list) \cap Range(wg.peer_list) :
            peers[p].remote_static = last.pre.peers[p].remote_static
              => peers[p].src = last.pre.peers[p].src

\* C8 (amended): a call that changes the port clears the binding of every
\* peer, active or not, rebind failed or not; a call whose port equals the
\* current one leaves the transport as it was, and its port step leaves every
\* binding as it was (the firewall-mark step and the peer entries of the same
\* call may still clear bindings).
C8_PortRebindClearsEndpoints ==
  /\ C8_PortChange
  /\ PortSame => /\ last.sock_ops = 0 /\ wg.sock = last.pre.wg.sock
                 /\ last.steps[3] = last.steps[2]

C8_Witness ==
  /\ PortChanged /\ last.ret = -EADDRINUSE
  /\ \E p \in Range(last.pre.wg.peer_list) : last.pre.peers[p].src

\* ------------------------------------------------- a dump that ran to done
\* the latest call was the DumpNext that ended a dump during which no set()
\* took the update lock
DumpComplete == last.op = "DumpNext" /\ last.ret = 0 /\ last.done /\ dump.stable

\* the allowed-IP entries of the device: peer-list order, and for each peer
\* the routing table's walk order
RECURSIVE AllIps(_)
AllIps(list) ==
  IF list = <<>> THEN <<>>
  ELSE [i \in 1..Len(WalkOrder(rt, Head(list))) |-> <<Head(list), WalkOrder(rt, Head(list))[i]>>]
       \o AllIps(Tail(list))

\* C1 (as claimed): with no mutation between chunks, calling DumpNext until
\* done emits every allowed-IP entry of every peer exactly once, in peer-list
\* order and in the routing table's per-peer walk order, for every choice of
\* message sizes.
C1_AllowedIpsExactlyOnce == DumpComplete => dump.ips = AllIps(wg.peer_list)

\* C2 (as claimed): with no mutation between chunks, the chunks of a dump run
\* to done carry the device's scalar fields exactly once, in the first chunk
\* only, for every choice of message sizes.
C2_DeviceFieldsOnce == DumpComplete => dump.device = {1}

\* the positions of the peer nests written for peer p
FragsOf(p) == {i \in DOMAIN dump.frags : dump.frags[i].peer = p}

\* C3 (as claimed): with no mutation between chunks, the chunks of a dump run
\* to done carry each peer's non-identity fields exactly once, in the first
\* peer nest written for that peer; every later nest of the peer carries only
\* its public key and allowed-IP entries.
C3_PeerFieldsOnce ==
  DumpComplete => \A p \in Range(wg.peer_list) :
                    /\ FragsOf(p) # {}
                    /\ \A i \in FragsOf(p) :
                         dump.frags[i].full <=> (\A j \in FragsOf(p) : i <= j)

\* the selector names the WireGuard device: by index or by name, not both
Resolves(sel) ==
  \/ sel.ifindex = WgIndex /\ sel.ifname = NoName
  \/ sel.ifindex = NoIndex /\ sel.ifname = "wg0"

\* C9: every step changes the generation counter by exactly one when it is
\* an ApplyConfig whose selector resolves the device (whether the call then
\* succeeds or fails), and leaves it alone when it is anything else:
\* DumpStart, DumpNext, DumpEnd, an ApplyConfig rejected at lookup.
C9_GenerationCountsLockedApplies ==
  [][wg'.device_update_gen =
       IF last'.op = "ApplyConfig" /\ Resolves(last'.req.sel)
       THEN wg.device_update_gen + 1 ELSE wg.device_update_gen]_vars

C9_Witness ==
  /\ Applied /\ Resolves(last.req.sel) /\ last.ret < 0
  /\ wg.device_update_gen = 2 /\ cb.active /\ dump.n > 0

\* the least message that holds what get() writes before the peer nests
HeadSize(first, identity) ==
  GENL_MSG_HDR + (IF first THEN SZ_U16 + SZ_U32 + SZ_U32 + SZ_IFNAME ELSE 0)
  + (IF first /\ identity THEN SZ_KEY + SZ_KEY ELSE 0) + NLA_HDRLEN

\* C10: the sequence number of a chunk is the generation counter at that
\* DumpNext; when a set() took the update lock since the previous chunk of
\* the dump, it differs from that chunk's sequence number; and DumpNext fails
\* only for a message too small for the chunk's head, mutation or none.
C10_SequenceFollowsGeneration ==
  last.op = "DumpNext" =>
    /\ last.seq = wg.device_update_gen /\ cb.seq = last.seq
    /\ (last.touched /\ last.prevSeq >= 0) => last.seq # last.prevSeq
    /\ last.ret < 0 <=> last.cap < HeadSize(last.first, last.identity)
    /\ last.ret < 0 => last.ret = -EMSGSIZE

C10_Witness ==
  /\ last.op = "DumpNext" /\ last.touched /\ last.prevSeq >= 0 /\ last.ret > 0
  /\ dump.n >= 2 /\ last.seq = last.prevSeq + 1

\* ------------------------------------------------ a cursor that was removed
\* the latest call was a DumpNext whose cursor named a peer that is no
\* longer on the device's list
CursorRemoved ==
  /\ last.op = "DumpNext" /\ last.cursor # NoPeer
  /\ \A i \in DOMAIN wg.peer_list : wg.peer_list[i] # last.cursor

\* the DumpNext ended the walk: done, no error, no peer nest, the cursor
\* cleared and its reference to the peer given back
WalkEnded ==
  /\ last.ret = 0 /\ last.done /\ last.npeers = 0
  /\ cb.args1 = NoPeer /\ ~cb.more
  /\ peers[last.cursor].refs = last.cursor_refs - 1

\* C11 (as claimed): when the peer recorded in the cursor was removed between
\* two DumpNext calls, the next DumpNext returns done without an error, emits
\* no peers and releases the cursor's reference, whatever the message size.
C11_RemovedCursorAlwaysEnds == CursorRemoved => WalkEnded

\* C11 (amended): when the peer recorded in the cursor was removed between
\* two DumpNext calls and the message holds the head of a chunk, the next
\* DumpNext returns done without an error, emits no peers and releases the
\* cursor's reference; a message too small for the head fails with EMSGSIZE.
C11_RemovedCursorEndsWalk ==
  CursorRemoved => IF last.cap >= HeadSize(FALSE, last.identity) THEN WalkEnded
                   ELSE last.ret = -EMSGSIZE

C11_Witness ==
  /\ CursorRemoved /\ last.ret = 0 /\ last.done /\ wg.peer_list # <<>>
  /\ last.cursor_refs = 1 /\ peers[last.cursor].refs = 0

\* ------------------------------------------------ the order of the steps
\* two devices that differ at most in the cached source bindings of peers
SameButSrc(a, b) ==
  /\ a.wg = b.wg /\ a.rt = b.rt
  /\ \A p \in Slots : [a.peers[p] EXCEPT !.src = FALSE] = [b.peers[p] EXCEPT !.src = FALSE]
\* the identity of a device
Identity(d) == <<d.wg.has_identity, d.wg.static_private, d.wg.static_public>>
\* the fields of the device that the first two steps set
MarkAndPort(d) == <<d.wg.fwmark, d.wg.incoming_port>>

\* the first three steps of the latest set(): generation, firewall mark, port
C12_DeviceSteps ==
  /\ last.steps[1] = [last.pre EXCEPT !.wg.device_update_gen = @ + 1]
  /\ SameButSrc(last.steps[2],
                [last.steps[1] EXCEPT !.wg.fwmark = IF last.req.fwmark # NoAttr
                                                    THEN last.req.fwmark ELSE @])
  /\ last.steps[3].wg.fwmark = last.steps[2].wg.fwmark
  /\ last.steps[3].wg.incoming_port =
       IF last.req.listen_port # NoAttr THEN last.req.listen_port
       ELSE last.steps[2].wg.incoming_port
  /\ last.steps[3].wg.peer_list = last.pre.wg.peer_list
  /\ last.steps[3].rt = last.pre.rt
  /\ Identity(last.steps[3]) = Identity(last.pre)

\* the last two steps before the peer entries: replace-all-peers, private key
C12_PeerSetSteps ==
  /\ last.steps[4].wg.peer_list =
       IF last.req.replace_peers THEN <<>> ELSE last.steps[3].wg.peer_list
  /\ Identity(last.steps[4]) = Identity(last.steps[3])
  /\ IF last.req.private_key # 0 /\ last.req.private_key_len = KEY_LEN
     THEN /\ last.steps[5].wg.has_identity
          /\ last.steps[5].wg.static_private = last.req.private_key
          /\ \A p \in Range(last.steps[5].wg.peer_list) :
               p \in Range(last.steps[4].wg.peer_list)
     ELSE last.steps[5] = last.steps[4]
  /\ MarkAndPort(last.steps[4]) = MarkAndPort(last.steps[3])
  /\ MarkAndPort(last.steps[5]) = MarkAndPort(last.steps[3])

\* the peer entries: handled in list order, each after the one before it
\* succeeded, none after one that failed
C12_PeerEntries ==
  /\ Len(last.trace) <= Len(last.req.peers)
  /\ \A i \in 1..Len(last.trace) :
       /\ i < Len(last.trace) => last.trace[i].ret = 0
       /\ MarkAndPort(last.trace[i].d) = MarkAndPort(last.steps[3])
       /\ Identity(last.trace[i].d) = Identity(last.steps[5])
       /\ (last.trace[i].ret = 0 /\ UpdateNest(i)) => HasKey(last.trace[i].d, Nest(i).public_key)
       /\ (last.trace[i].ret = 0 /\ WellFormed(i) /\ Nest(i).remove)
            => ~HasKey(last.trace[i].d, Nest(i).public_key)
  /\ IF last.trace = <<>> THEN Dev = last.steps[5] /\ last.ret = 0
     ELSE /\ Dev = last.trace[Len(last.trace)].d
          /\ last.ret = last.trace[Len(last.trace)].ret
  /\ last.ret = 0 => Len(last.trace) = Len(last.req.peers)

\* C12: a set() that took the lock applies the firewall mark, the port, the
\* replace-all-peers flag, the private key and then the peer entries in list
\* order; when it fails at the port, the mark is set and the peer list, the
\* identity and the routing table are as before the call; when it fails at a
\* peer entry, what the steps and entries before it did is the state the
\* failed entry started from and the entries after it are not handled.
C12_OrderedPartialApply ==
  (Applied /\ last.locked) =>
    /\ C12_DeviceSteps
    /\ IF Len(last.steps) = 3
       THEN last.ret # 0 /\ last.trace = <<>> /\ Dev = last.steps[3]
       ELSE Len(last.steps) = 5 /\ C12_PeerSetSteps /\ C12_PeerEntries

C12_Witness ==
  /\ Applied /\ last.locked /\ Len(last.steps) = 3 /\ last.ret = -EADDRINUSE
  /\ last.req.fwmark # NoAttr /\ wg.fwmark # last.pre.wg.fwmark
  /\ last.req.replace_peers /\ last.req.private_key # 0 /\ last.req.peers # <<>>
  /\ wg.peer_list # <<>> /\ ~wg.has_identity

\* a call that failed at its second peer entry after the first one changed
\* the device
C12_WitnessEntry ==
  /\ Applied /\ Len(last.req.peers) = 2 /\ Len(last.trace) = 2 /\ last.ret < 0
  /\ last.trace[1].d # last.steps[5]

\* ------------------------------------------------- a peer entry that fails
\* the i-th nest is the last one handled, it failed, and it named a key the
\* device did not hold when set_peer came to it
FailedCreation(i) ==
  /\ i = Len(last.trace) /\ last.trace[i].ret < 0
  /\ UpdateNest(i) /\ ~HasKey(BeforeNest(i), Nest(i).public_key)

\* C13 (as claimed): when a peer entry creates a peer and then fails, the
\* creation is rolled back: after the call the device holds neither the new
\* peer nor a routing-table entry owned by it.
C13_FailedEntryRollsBackCreation ==
  Applied => \A i \in 1..Len(last.trace) :
    FailedCreation(i) =>
      /\ ~HasKey(Dev, Nest(i).public_key)
      /\ \A s \in RtIdx : rt[s] # 0 => peers[rt[s]].remote_static # Nest(i).public_key

\* ------------------------------------------------ replacing the peer set
\* the public keys of the peers of d
KeysOf(d) == {d.peers[p].remote_static : p \in Range(d.wg.peer_list)}
IsDevKey(k) == wg.has_identity /\ k = wg.static_public
\* the latest call succeeded and carried the replace-all-peers flag
Replaced == Applied /\ last.locked /\ last.ret = 0 /\ last.req.replace_peers
\* every routing-table entry present was inserted by the latest call
RtFromCall ==
  \A s \in RtIdx : rt[s] # 0 =>
    \E i \in DOMAIN last.req.peers : \E j \in DOMAIN Nest(i).allowedips :
      /\ RtKey(Nest(i).allowedips[j]) = RtSlots[s]
      /\ peers[rt[s]].remote_static = Nest(i).public_key
\* the old peers go before the first entry is handled, and stay when the
\* port step failed
ReplaceInOrder ==
  /\ (Replaced \/ (Applied /\ last.locked /\ last.req.replace_peers /\ Len(last.steps) = 5))
       => last.steps[4].wg.peer_list = <<>> /\ \A s \in RtIdx : last.steps[4].rt[s] = 0
  /\ (Applied /\ last.locked /\ last.req.replace_peers /\ Len(last.steps) = 3)
       => wg.peer_list = last.pre.wg.peer_list /\ rt = last.pre.rt

\* C14 (as claimed): after a successful call with the replace-all-peers flag
\* the device's peers are exactly those named by an entry of the call without
\* the removal flag and with a key other than the device's; the routing table
\* holds only entries the call inserted; the old peers are removed before the
\* first entry and not at all when the port step failed.
C14_ReplaceLeavesNamedPeers ==
  /\ ReplaceInOrder
  /\ Replaced =>
       /\ KeysOf(Dev) = {Nest(i).public_key : i \in {j \in DOMAIN last.req.peers :
                            ~Nest(j).remove /\ ~IsDevKey(Nest(j).public_key)}}
       /\ RtFromCall

\* the entry that decides whether key k is left: the last one that names it
LastNaming(k) ==
  {i \in DOMAIN last.req.peers :
     /\ Nest(i).public_key = k
     /\ \A j \in DOMAIN last.req.peers : Nest(j).public_key = k => j <= i}

\* C14 (amended): after a successful call with the replace-all-peers flag the
\* device's peers are exactly those whose last entry in the call's list has
\* no removal flag and whose key is not the device's; the routing table holds
\* only entries the call inserted; the old peers are removed before the first
\* entry and not at all when the port step failed.
C14_ReplaceLeavesLastNamedPeers ==
  /\ ReplaceInOrder
  /\ Replaced =>
       /\ KeysOf(Dev) = {Nest(i).public_key : i \in {j \in DOMAIN last.req.peers :
                            /\ j \in LastNaming(Nest(j).public_key)
                            /\ ~Nest(j).remove /\ ~IsDevKey(Nest(j).public_key)}}
       /\ RtFromCall

C14_Witness ==
  /\ Replaced /\ Len(last.req.peers) = 2
  /\ last.pre.wg.peer_list # <<>> /\ \E s \in RtIdx : last.pre.rt[s] # 0 /\ rt[s] = 0
  /\ KeysOf(Dev) # {} /\ KeysOf(Dev) # KeysOf(last.pre)

\* ------------------------------------------------- a new private key
\* the latest call took the lock and came to install a private key
KeyInstalled ==
  /\ Applied /\ last.locked /\ Len(last.steps) = 5
  /\ last.req.private_key # 0 /\ last.req.private_key_len = KEY_LEN

\* C15: when set() installs a private key, the peers left are those it had
\* before the step, less the one with the new public key and less those whose
\* precomputation fails; the step does not end the call: the peer entries are
\* handled after it and the call returns what they return, success when
\* there are none.
C15_PrecomputeFailureRemovesPeer ==
  KeyInstalled =>
    /\ KeysOf(last.steps[5]) =
         KeysOf(last.steps[4]) \ ({last.steps[5].wg.static_public} \cup LowOrderKeys)
    /\ \A s \in RtIdx :
         last.steps[5].rt[s] = IF last.steps[4].rt[s] \in Range(last.steps[5].wg.peer_list)
                               THEN last.steps[4].rt[s] ELSE 0
    /\ last.req.peers # <<>> => Len(last.trace) >= 1
    /\ last.req.peers = <<>> => last.ret = 0
    /\ last.ret # 0 => last.trace # <<>> /\ last.ret = last.trace[Len(last.trace)].ret

C15_Witness ==
  /\ KeyInstalled /\ last.ret = 0 /\ Len(last.trace) >= 1
  /\ \E k \in LowOrderKeys : k \in KeysOf(last.steps[4]) /\ k \notin KeysOf(last.steps[5])
  /\ KeysOf(last.steps[5]) # {}

\* ------------------------------------------------------- the selector
\* the selector gives both the index and the name, or neither
BadSelector(sel) ==
  \/ sel.ifindex # NoIndex /\ sel.ifname # NoName
  \/ sel.ifindex = NoIndex /\ sel.ifname = NoName

\* C16: a step that is a DumpStart or an ApplyConfig with both or neither of
\* index and name returns EBADR and changes neither the device (generation,
\* references, fields, peer list), the peers, the routing table nor the dump
\* callback, and the lock is not taken; with exactly one of them the call
\* does not return EBADR.
C16_SelectorExactlyOne ==
  [][/\ last'.op = "DumpStart" =>
          IF BadSelector(last'.sel)
          THEN last'.ret = -EBADR /\ UNCHANGED <<wg, peers, rt, cb>>
          ELSE last'.ret # -EBADR
     /\ last'.op = "ApplyConfig" =>
          IF BadSelector(last'.req.sel)
          THEN /\ last'.ret = -EBADR /\ ~last'.locked /\ last'.steps = <<>>
               /\ UNCHANGED <<wg, peers, rt, cb>>
          ELSE last'.ret # -EBADR]_vars

C16_Witness ==
  /\ Applied /\ last.req.sel.ifindex # NoIndex /\ last.req.sel.ifname # NoName
  /\ last.ret = -EBADR /\ last.req.private_key # 0
  /\ wg.peer_list # <<>> /\ cb.active /\ wg.device_update_gen = 1

\* --------------------------------------------------------- progress
\* the place of a peer cursor in the device's list, 0 for none
Pos(p) == IF \E i \in DOMAIN wg.peer_list : wg.peer_list[i] = p
          THEN CHOOSE i \in DOMAIN wg.peer_list : wg.peer_list[i] = p ELSE 0
\* the cursor the latest DumpNext stored is beyond the one it started from:
\* a further peer completed, or the same peer and a larger allowed-IP index
Advanced ==
  \/ Pos(cb.args1) > Pos(last.cursor)
  \/ Pos(cb.args1) = Pos(last.cursor) /\ cb.args2 > last.cursor2

\* C17 (as claimed): on a device that is not changed during the dump, a
\* DumpNext that does not reach done either fails with EMSGSIZE or has
\* advanced the cursor.
C17_NoChunkWithoutProgress ==
  (last.op = "DumpNext" /\ dump.stable /\ ~last.done) => (last.ret < 0 \/ Advanced)

\* ------------------------------------------------------------------ C18
\* C18: in every interleaving of a dump and applies on one device at most
\* one call is inside a critical section; the lock is held exactly while a
\* call is inside (each call gives it back on whatever path it returns), so
\* between two chunks of a dump, and whenever no call is in progress, the
\* lock is free and an apply can take it.
C18_ExclusiveAndReleased ==
  /\ ~(pc.get = "locked" /\ pc.set = "locked")
  /\ (lock = "get") <=> (pc.get = "locked")
  /\ (lock = "set") <=> (pc.set = "locked")
  /\ (pc.get = "idle" /\ pc.set = "idle") => lock = "none"
  /\ (cb.active /\ pc.get = "idle" /\ pc.set = "idle" /\ ~uaf
        /\ wg.device_update_gen < MaxGen)
       => \A req \in LockRequests :
            lookup_interface(req.sel) = 0 => ENABLED SetLock(req, 0)

\* an apply is inside its critical section between two chunks of a dump
C18_Witness ==
  /\ lock = "set" /\ pc.get = "idle"
  /\ cb.active /\ cb.more /\ dump.n >= 1 /\ last.op = "DumpNext" /\ last.ret > 0

\* ------------------------------------------------------------------ C19
\* the holders of a reference on peer p: the device's list and the cursor of
\* the dump in progress, from the call of get() that took the reference to
\* the call that gives it back
Holders(p) ==
  (IF p \in Range(wg.peer_list) THEN 1 ELSE 0)
  + (IF cb.active /\ cb.args1 = p /\ cb.holds THEN 1 ELSE 0)

\* C19: however a dump ends, each reference its cursor pinned is released
\* exactly once: no reference is released twice, every peer's count is the
\* number of its holders, and the device's count is one while a dump is in
\* progress and none after DumpEnd.
C19_ReferencesReleasedOnce ==
  /\ ~uaf
  /\ \A p \in Slots : peers[p].refs = Holders(p)
  /\ wg.dev_refs = IF cb.active THEN 1 ELSE 0

\* ------------------------------------------------------------------ C20
\* no peer of device d has the device's own public key
NoSelfPeer(d) == d.wg.has_identity => ~HasKey(d, d.wg.static_public)

\* C20: in every state reached by ApplyConfig calls, and after every peer
\* entry of the last one, a device with an identity has no peer whose public
\* key is the device's own.
C20_NoPeerWithOwnKey ==
  /\ NoSelfPeer(Dev)
  /\ Applied => \A i \in 1..Len(last.trace) : NoSelfPeer(last.trace[i].d)

\* a new private key was installed on a device that had a peer with the
\* derived public key, and the same request then named that key as a peer
C20_Witness ==
  /\ Applied /\ last.ret = 0 /\ last.req.private_key # 0
  /\ HasKey(last.pre, DerivePublic(last.req.private_key))
  /\ wg.static_private = last.req.private_key
  /\ \E i \in 1..Len(last.req.peers) :
        Nest(i).public_key = wg.static_public /\ ~Nest(i).remove
====
